---- MODULE Spec2Model ----
(***************************************************************************)
(* Three-phase actuator commutation engine (code/circuitpython).           *)
(*                                                                         *)
(* Three variants of one controller are modelled side by side:             *)
(*   "rad"   code.py            position = angle in radians, period 2*pi   *)
(*   "deg"   sine/code.py       position = degrees, period 360             *)
(*   "table" step_table/code.py position = fractional index into STEPS     *)
(*                                                                         *)
(* Positions and phase values are Python floats (IEEE-754 binary64).  They *)
(* are modelled exactly: a float is a dyadic rational  (-1)^neg * m * 2^e  *)
(* whose mantissa m is an arbitrary-precision natural, and every float     *)
(* operation of the source is the exact operation followed by rounding to  *)
(* 53 significant bits, ties to even.                                      *)
(***************************************************************************)
EXTENDS Integers, Sequences, FiniteSets, TLC

(***************************************************************************)
(* Arbitrary-precision naturals: little-endian sequences of limbs in base  *)
(* 2^15, without most-significant zero limbs; <<>> is zero.                *)
(***************************************************************************)
Pow2(n) == 2 ^ n

Base == Pow2(15)

Lo(a) == IF a = <<>> THEN 0 ELSE Head(a)

Rest(a) == IF a = <<>> THEN <<>> ELSE Tail(a)

RECURSIVE Trim(_)
Trim(a) ==
  IF a = <<>> THEN <<>>
  ELSE IF a[Len(a)] = 0 THEN Trim(SubSeq(a, 1, Len(a) - 1))
  ELSE a

RECURSIVE BAddC(_, _, _)
BAddC(a, b, c) ==
  IF a = <<>> /\ b = <<>> THEN (IF c = 0 THEN <<>> ELSE <<c>>)
  ELSE LET x == Lo(a) + Lo(b) + c
       IN  <<x % Base>> \o BAddC(Rest(a), Rest(b), x \div Base)

BAdd(a, b) == BAddC(a, b, 0)

\* a - b - br for a >= b + br, before trimming
RECURSIVE BSubB(_, _, _)
BSubB(a, b, br) ==
  IF a = <<>> THEN <<>>
  ELSE LET x == Lo(a) - Lo(b) - br
       IN  IF x < 0 THEN <<x + Base>> \o BSubB(Rest(a), Rest(b), 1)
           ELSE <<x>> \o BSubB(Rest(a), Rest(b), 0)

BSub(a, b) == Trim(BSubB(a, b, 0))

\* -1, 0, 1 as a < b, a = b, a > b
RECURSIVE BCmpFrom(_, _, _)
BCmpFrom(a, b, i) ==
  IF i = 0 THEN 0
  ELSE IF a[i] < b[i] THEN -1
  ELSE IF a[i] > b[i] THEN 1
  ELSE BCmpFrom(a, b, i - 1)

BCmp(a, b) ==
  IF Len(a) < Len(b) THEN -1
  ELSE IF Len(a) > Len(b) THEN 1
  ELSE BCmpFrom(a, b, Len(a))

\* a * k + c for 0 <= k < 2^16
RECURSIVE BMulC(_, _, _)
BMulC(a, k, c) ==
  IF a = <<>> THEN (IF c = 0 THEN <<>> ELSE IF c < Base THEN <<c>> ELSE <<c % Base, c \div Base>>)
  ELSE LET x == Head(a) * k + c
       IN  <<x % Base>> \o BMulC(Tail(a), k, x \div Base)

BMul(a, k) == IF k = 0 THEN <<>> ELSE BMulC(a, k, 0)

\* <<quotient limbs (untrimmed), remainder>> of a \div k, from the top limb down
RECURSIVE BDivFrom(_, _, _, _)
BDivFrom(a, k, i, rem) ==
  IF i = 0 THEN <<<<>>, rem>>
  ELSE LET x == rem * Base + a[i]
           r == BDivFrom(a, k, i - 1, x % k)
       IN  <<Append(r[1], x \div k), r[2]>>

BDiv(a, k) == Trim(BDivFrom(a, k, Len(a), 0)[1])

BMod(a, k) == BDivFrom(a, k, Len(a), 0)[2]

BOfInt(n) ==
  IF n = 0 THEN <<>>
  ELSE IF n < Base THEN <<n>>
  ELSE IF n < Base * Base THEN <<n % Base, n \div Base>>
  ELSE <<n % Base, (n \div Base) % Base, n \div (Base * Base)>>

\* value of a natural below 2^31
BToInt(a) ==
  IF a = <<>> THEN 0
  ELSE IF Len(a) = 1 THEN a[1]
  ELSE IF Len(a) = 2 THEN a[1] + Base * a[2]
  ELSE a[1] + Base * (a[2] + Base * a[3])

RECURSIVE IntBitLen(_)
IntBitLen(n) == IF n = 0 THEN 0 ELSE 1 + IntBitLen(n \div 2)

BBitLen(a) == IF a = <<>> THEN 0 ELSE 15 * (Len(a) - 1) + IntBitLen(a[Len(a)])

Zeros(n) == [i \in 1..n |-> 0]

BShl(a, n) ==
  IF a = <<>> THEN <<>>
  ELSE Zeros(n \div 15) \o BMul(a, Pow2(n % 15))

\* floor(a / 2^n)
BShr(a, n) ==
  IF n \div 15 >= Len(a) THEN <<>>
  ELSE BDiv(SubSeq(a, (n \div 15) + 1, Len(a)), Pow2(n % 15))

BOdd(a) == a # <<>> /\ a[1] % 2 = 1

\* number of trailing zero bits of n > 0
RECURSIVE IntTz(_)
IntTz(n) == IF n % 2 = 1 THEN 0 ELSE 1 + IntTz(n \div 2)

RECURSIVE BTz(_)
BTz(a) == IF a[1] = 0 THEN 15 + BTz(Tail(a)) ELSE IntTz(a[1])

(***************************************************************************)
(* Python floats.  A float is [neg, m, e] with value (-1)^neg * m * 2^e;   *)
(* the canonical form has m odd, and zero is [FALSE, <<>>, 0].             *)
(***************************************************************************)
FZero == [neg |-> FALSE, m |-> <<>>, e |-> 0]

\* canonical form of (-1)^neg * m * 2^e
Canon(neg, m, e) ==
  IF m = <<>> THEN FZero
  ELSE LET t == BTz(m) IN [neg |-> neg, m |-> BShr(m, t), e |-> e + t]

\* round-to-nearest, ties-to-even, of the natural m to 53 significant bits
RoundNat53(m) ==
  LET d == BBitLen(m) - 53
  IN  IF d <= 0 THEN m
      ELSE LET q    == BShr(m, d)
               r    == BSub(m, BShl(q, d))
               half == BShl(<<1>>, d - 1)
               c    == BCmp(r, half)
               up   == c > 0 \/ (c = 0 /\ BOdd(q))
           IN  BShl(IF up THEN BAdd(q, <<1>>) ELSE q, d)

\* the float nearest to the exact value (-1)^neg * m * 2^e
Round53(neg, m, e) == Canon(neg, RoundNat53(m), e)

FOfInt(n) == IF n < 0 THEN Canon(TRUE, BOfInt(-n), 0) ELSE Canon(FALSE, BOfInt(n), 0)

FNeg(x) == IF x.m = <<>> THEN x ELSE [x EXCEPT !.neg = ~x.neg]

\* exact sum of two floats as <<neg, m, e>>, unrounded
ExactSum(x, y) ==
  IF x.m = <<>> THEN <<y.neg, y.m, y.e>>
  ELSE IF y.m = <<>> THEN <<x.neg, x.m, x.e>>
  ELSE LET e  == IF x.e < y.e THEN x.e ELSE y.e
           xm == BShl(x.m, x.e - e)
           ym == BShl(y.m, y.e - e)
           c  == BCmp(xm, ym)
       IN  IF x.neg = y.neg THEN <<x.neg, BAdd(xm, ym), e>>
           ELSE IF c = 0 THEN <<FALSE, <<>>, 0>>
           ELSE IF c > 0 THEN <<x.neg, BSub(xm, ym), e>>
           ELSE <<y.neg, BSub(ym, xm), e>>

\* x + y and x - y as Python computes them
FAdd(x, y) == LET s == ExactSum(x, y) IN Round53(s[1], s[2], s[3])

FSub(x, y) == FAdd(x, FNeg(y))

\* sign of x - y: -1, 0, 1
FCmp(x, y) ==
  LET s == ExactSum(x, FNeg(y))
  IN  IF s[2] = <<>> THEN 0 ELSE IF s[1] THEN -1 ELSE 1

FLt(x, y) == FCmp(x, y) < 0

FGe(x, y) == FCmp(x, y) >= 0

FLe(x, y) == FCmp(x, y) <= 0

\* float * int (the int converts exactly), for |k| < 2^16
FMulInt(x, k) ==
  IF k = 0 THEN FZero
  ELSE Round53(x.neg # (k < 0), BMul(x.m, IF k < 0 THEN -k ELSE k), x.e)

\* float / int for 0 < k < 2^16: the quotient to 64 bits and a sticky bit, rounded
FDivInt(x, k) ==
  IF x.m = <<>> THEN FZero
  ELSE LET s   == 80 - BBitLen(x.m)
           num == BShl(x.m, s)
           q   == BDiv(num, k)
           st  == IF BMod(num, k) = 0 THEN <<>> ELSE <<1>>
       IN  Round53(x.neg, BAdd(BShl(q, 1), st), x.e - s - 1)

\* int(x): truncation toward zero, for |x| < 2^31
FTrunc(x) ==
  LET mag == IF x.e >= 0 THEN BToInt(BShl(x.m, x.e)) ELSE BToInt(BShr(x.m, -x.e))
  IN  IF x.neg THEN -mag ELSE mag

FIsInt(x) == x.e >= 0

\* math.floor and math.ceil
FFloor(x) == IF FIsInt(x) \/ ~x.neg THEN FTrunc(x) ELSE FTrunc(x) - 1

FCeil(x) == IF FIsInt(x) \/ x.neg THEN FTrunc(x) ELSE FTrunc(x) + 1

\* a * b for naturals
RECURSIVE BMulBig(_, _)
BMulBig(a, b) ==
  IF b = <<>> \/ a = <<>> THEN <<>>
  ELSE BAdd(BMul(a, Head(b)), <<0>> \o BMulBig(a, Tail(b)))

\* float * float
FMul(x, y) ==
  IF x.m = <<>> \/ y.m = <<>> THEN FZero
  ELSE Round53(x.neg # y.neg, Trim(BMulBig(x.m, y.m)), x.e + y.e)

(***************************************************************************)
(* Constants of the three scripts.                                         *)
(***************************************************************************)
PWM_MAX == 65535

NUM_STEPS == 24

\* math.pi
PI == [neg |-> FALSE, m |-> <<1443, 21777, 4349, 25>>, e |-> -48]

\* 2 * math.pi
TWO_PI == FMulInt(PI, 2)

\* PHASE_ANGLE (code.py) and PHASE_OFFSET (sine/code.py): 2 * math.pi / 3.0
PHASE_ANGLE == FDivInt(TWO_PI, 3)

\* math.pi / 180
DEGREE_TO_RADIAN_MULTIPLIER == FDivInt(PI, 180)

DIRECTION_FORWARDS == 1

DIRECTION_BACKWARDS == -1

\* PWM output steps for the 3 coil phases, each from -100 to +100
STEPS == <<
  <<25, 0, -75>>, <<50, 0, -50>>, <<75, 0, -25>>, <<100, 0, 0>>,
  <<75, 25, 0>>, <<50, 50, 0>>, <<25, 75, 0>>, <<0, 100, 0>>,
  <<0, 75, 25>>, <<0, 50, 50>>, <<0, 25, 75>>, <<0, 0, 100>>,
  <<-25, 0, 75>>, <<-50, 0, 50>>, <<-75, 0, 25>>, <<-100, 0, 0>>,
  <<-75, -25, 0>>, <<-50, -50, 0>>, <<-25, -75, 0>>, <<0, -100, 0>>,
  <<0, -75, -25>>, <<0, -50, -50>>, <<0, -25, -75>>, <<0, 0, -100>> >>

Variants == {"rad", "deg", "table"}

\* self.step_increment: .05 rad, .5 degrees, .1 table steps
StepIncrement(v) ==
  IF v = "rad" THEN FDivInt(FOfInt(1), 20)
  ELSE IF v = "deg" THEN FDivInt(FOfInt(1), 2)
  ELSE FDivInt(FOfInt(1), 10)

\* the period P of the cyclic position
Period(v) ==
  IF v = "rad" THEN TWO_PI
  ELSE IF v = "deg" THEN FOfInt(360)
  ELSE FOfInt(NUM_STEPS)

\* the position set by the constructor: angle = 0.0, degrees = 0.0, current_step = 1
InitialPosition(v) == IF v = "table" THEN FOfInt(1) ELSE FZero

(***************************************************************************)
(* math.cos, a library function, tabulated as <<argument, value>> at the   *)
(* arguments update() passes to it within the first ticks after            *)
(* construction.                                                           *)
(***************************************************************************)
CosTable == {
    <<[neg |-> TRUE, m |-> <<29541, 28762, 1352, 134>>, e |-> -51],
      [neg |-> TRUE, m |-> <<32767, 32767, 32767, 63>>, e |-> -52]>>,
    <<[neg |-> TRUE, m |-> <<25625, 15458, 22457, 16>>, e |-> -48],
      [neg |-> TRUE, m |-> <<18907, 3533, 990, 63>>, e |-> -52]>>,
    <<[neg |-> TRUE, m |-> <<20011, 21969, 30286, 132>>, e |-> -51],
      [neg |-> TRUE, m |-> <<26683, 30455, 1822, 62>>, e |-> -52]>>,
    <<[neg |-> TRUE, m |-> <<31629, 18572, 11985, 132>>, e |-> -51],
      [neg |-> TRUE, m |-> <<10155, 19240, 10003, 244>>, e |-> -54]>>,
    <<[neg |-> TRUE, m |-> <<17039, 9140, 7797, 8>>, e |-> -47],
      [neg |-> TRUE, m |-> <<5149, 14866, 3026, 60>>, e |-> -52]>>,
    <<[neg |-> TRUE, m |-> <<22099, 11779, 8151, 131>>, e |-> -51],
      [neg |-> TRUE, m |-> <<22325, 7272, 13608, 236>>, e |-> -54]>>,
    <<[neg |-> TRUE, m |-> <<3327, 9102, 27567, 130>>, e |-> -51],
      [neg |-> TRUE, m |-> <<1679, 2632, 12444, 58>>, e |-> -52]>>,
    <<[neg |-> TRUE, m |-> <<16859, 4191, 11309, 65>>, e |-> -50],
      [neg |-> TRUE, m |-> <<24063, 22153, 14520, 232>>, e |-> -54]>>,
    <<[neg |-> TRUE, m |-> <<9763, 21103, 8731, 16>>, e |-> -48],
      [neg |-> TRUE, m |-> <<20127, 17846, 7426, 114>>, e |-> -53]>>,
    <<[neg |-> TRUE, m |-> <<24187, 1589, 18784, 129>>, e |-> -51],
      [neg |-> TRUE, m |-> <<1475, 13692, 14615, 224>>, e |-> -54]>>,
    <<[neg |-> TRUE, m |-> <<17903, 15480, 16625, 64>>, e |-> -50],
      [neg |-> TRUE, m |-> <<27193, 27222, 6908, 110>>, e |-> -53]>>,
    <<[neg |-> TRUE, m |-> <<14657, 27564, 14949, 128>>, e |-> -51],
      [neg |-> TRUE, m |-> <<6225, 28271, 12469, 216>>, e |-> -54]>>,
    <<[neg |-> TRUE, m |-> <<19783, 15567, 26065, 255>>, e |-> -52],
      [neg |-> TRUE, m |-> <<10959, 3466, 10582, 212>>, e |-> -54]>>,
    <<[neg |-> TRUE, m |-> <<5331, 23256, 31298, 15>>, e |-> -48],
      [neg |-> TRUE, m |-> <<11249, 12236, 7445, 105>>, e |-> -53]>>,
    <<[neg |-> TRUE, m |-> <<10253, 8774, 22231, 254>>, e |-> -52],
      [neg |-> TRUE, m |-> <<3431, 8454, 4082, 104>>, e |-> -53]>>,
    <<[neg |-> TRUE, m |-> <<16745, 17374, 25582, 126>>, e |-> -51],
      [neg |-> TRUE, m |-> <<16715, 13349, 17037, 25>>, e |-> -51]>>,
    <<[neg |-> TRUE, m |-> <<15283, 11686, 18204, 31>>, e |-> -49],
      [neg |-> TRUE, m |-> <<8181, 18598, 222, 25>>, e |-> -51]>>,
    <<[neg |-> TRUE, m |-> <<8217, 1274, 7230, 62>>, e |-> -50],
      [neg |-> TRUE, m |-> <<6991, 5521, 14152, 93>>, e |-> -53]>>,
    <<[neg |-> TRUE, m |-> <<13207, 31311, 15812, 242>>, e |-> -52],
      [neg |-> TRUE, m |-> <<29695, 20236, 13206, 81>>, e |-> -53]>>,
    <<[neg |-> TRUE, m |-> <<29541, 28762, 1352, 118>>, e |-> -51],
      [neg |-> TRUE, m |-> <<13727, 27478, 11187, 138>>, e |-> -54]>>,
    <<[neg |-> TRUE, m |-> <<6653, 18204, 22366, 229>>, e |-> -52],
      [neg |-> TRUE, m |-> <<13887, 31729, 12541, 28>>, e |-> -52]>>,
    <<[neg |-> TRUE, m |-> <<5331, 23256, 31298, 13>>, e |-> -48],
      [neg |-> TRUE, m |-> <<27829, 25271, 28626, 176>>, e |-> -55]>>,
    <<[neg |-> TRUE, m |-> <<8217, 1274, 7230, 54>>, e |-> -50],
      [neg |-> TRUE, m |-> <<9951, 10731, 7967, 126>>, e |-> -55]>>,
    <<[neg |-> TRUE, m |-> <<13207, 31311, 15812, 210>>, e |-> -52],
      [neg |-> TRUE, m |-> <<8481, 13094, 19472, 150>>, e |-> -56]>>,
    <<[neg |-> TRUE, m |-> <<29541, 28762, 1352, 102>>, e |-> -51],
      [neg |-> TRUE, m |-> <<9921, 4345, 9936, 193>>, e |-> -58]>>,
    <<[neg |-> TRUE, m |-> <<3327, 9102, 27567, 98>>, e |-> -51],
      [neg |-> FALSE, m |-> <<16373, 14246, 8313, 216>>, e |-> -58]>>,
    <<[neg |-> TRUE, m |-> <<5331, 23256, 31298, 11>>, e |-> -48],
      [neg |-> FALSE, m |-> <<1085, 6531, 2601, 39>>, e |-> -54]>>,
    <<[neg |-> TRUE, m |-> <<8217, 1274, 7230, 46>>, e |-> -50],
      [neg |-> FALSE, m |-> <<1679, 6085, 2964, 129>>, e |-> -55]>>,
    <<[neg |-> TRUE, m |-> <<22987, 15655, 7906, 89>>, e |-> -51],
      [neg |-> FALSE, m |-> <<9445, 4445, 15153, 22>>, e |-> -52]>>,
    <<[neg |-> FALSE, m |-> <<>>, e |-> 0],
      [neg |-> FALSE, m |-> <<1>>, e |-> 0]>>,
    <<[neg |-> FALSE, m |-> <<1>>, e |-> -56],
      [neg |-> FALSE, m |-> <<1>>, e |-> 0]>>,
    <<[neg |-> FALSE, m |-> <<7481, 17573, 32026, 142>>, e |-> -59],
      [neg |-> FALSE, m |-> <<18893, 19251, 32448, 255>>, e |-> -53]>>,
    <<[neg |-> FALSE, m |-> <<7481, 17573, 32026, 142>>, e |-> -58],
      [neg |-> FALSE, m |-> <<22469, 6133, 32129, 127>>, e |-> -52]>>,
    <<[neg |-> FALSE, m |-> <<30187, 29563, 7635, 107>>, e |-> -57],
      [neg |-> FALSE, m |-> <<17013, 14206, 29893, 255>>, e |-> -53]>>,
    <<[neg |-> FALSE, m |-> <<7481, 17573, 32026, 142>>, e |-> -57],
      [neg |-> FALSE, m |-> <<1383, 29054, 27657, 255>>, e |-> -53]>>,
    <<[neg |-> FALSE, m |-> <<17543, 5582, 23649, 178>>, e |-> -57],
      [neg |-> FALSE, m |-> <<17911, 29620, 24783, 255>>, e |-> -53]>>,
    <<[neg |-> FALSE, m |-> <<19661, 6553, 13107, 102>>, e |-> -56],
      [neg |-> FALSE, m |-> <<4683, 18122, 31457, 31>>, e |-> -50]>>,
    <<[neg |-> FALSE, m |-> <<26215, 19660, 6553, 51>>, e |-> -55],
      [neg |-> FALSE, m |-> <<4683, 18122, 31457, 31>>, e |-> -50]>>,
    <<[neg |-> FALSE, m |-> <<30187, 29563, 7635, 107>>, e |-> -56],
      [neg |-> FALSE, m |-> <<26141, 23077, 21271, 255>>, e |-> -53]>>,
    <<[neg |-> FALSE, m |-> <<9417, 19976, 18107, 62>>, e |-> -55],
      [neg |-> FALSE, m |-> <<2853, 25479, 24944, 127>>, e |-> -52]>>,
    <<[neg |-> FALSE, m |-> <<7481, 17573, 32026, 142>>, e |-> -56],
      [neg |-> FALSE, m |-> <<32763, 29040, 22550, 127>>, e |-> -52]>>,
    <<[neg |-> FALSE, m |-> <<26503, 30569, 869, 5>>, e |-> -51],
      [neg |-> FALSE, m |-> <<24751, 23628, 6908, 255>>, e |-> -53]>>,
    <<[neg |-> FALSE, m |-> <<17543, 5582, 23649, 178>>, e |-> -56],
      [neg |-> FALSE, m |-> <<2769, 13336, 16807, 127>>, e |-> -52]>>,
    <<[neg |-> FALSE, m |-> <<19479, 7985, 9730, 98>>, e |-> -55],
      [neg |-> FALSE, m |-> <<19411, 8401, 13458, 127>>, e |-> -52]>>,
    <<[neg |-> FALSE, m |-> <<19661, 6553, 13107, 102>>, e |-> -55],
      [neg |-> FALSE, m |-> <<6081, 29520, 23627, 254>>, e |-> -53]>>,
    <<[neg |-> FALSE, m |-> <<6555, 13107, 26214, 204>>, e |-> -56],
      [neg |-> FALSE, m |-> <<8287, 6093, 32113, 3>>, e |-> -47]>>,
    <<[neg |-> FALSE, m |-> <<30187, 29563, 7635, 107>>, e |-> -55],
      [neg |-> FALSE, m |-> <<13283, 5368, 9791, 127>>, e |-> -52]>>,
    <<[neg |-> FALSE, m |-> <<16253, 3980, 11083, 232>>, e |-> -56],
      [neg |-> FALSE, m |-> <<27735, 26774, 11612, 254>>, e |-> -53]>>,
    <<[neg |-> FALSE, m |-> <<9417, 19976, 18107, 62>>, e |-> -54],
      [neg |-> FALSE, m |-> <<16011, 19268, 3008, 254>>, e |-> -53]>>,
    <<[neg |-> FALSE, m |-> <<19661, 6553, 13107, 38>>, e |-> -53],
      [neg |-> FALSE, m |-> <<26935, 31933, 4108, 253>>, e |-> -53]>>,
    <<[neg |-> FALSE, m |-> <<19661, 6553, 13107, 102>>, e |-> -54],
      [neg |-> FALSE, m |-> <<12605, 5495, 14697, 125>>, e |-> -52]>>,
    <<[neg |-> FALSE, m |-> <<1>>, e |-> -2],
      [neg |-> FALSE, m |-> <<28321, 16123, 1362, 248>>, e |-> -53]>>,
    <<[neg |-> FALSE, m |-> <<13107, 26214, 19660, 153>>, e |-> -54],
      [neg |-> FALSE, m |-> <<1245, 21551, 9275, 122>>, e |-> -52]>>,
    <<[neg |-> FALSE, m |-> <<13107, 26214, 19660, 89>>, e |-> -53],
      [neg |-> FALSE, m |-> <<26039, 14875, 15709, 240>>, e |-> -53]>>,
    <<[neg |-> FALSE, m |-> <<6553, 13107, 26214, 204>>, e |-> -54],
      [neg |-> FALSE, m |-> <<29791, 14838, 15530, 29>>, e |-> -50]>>,
    <<[neg |-> FALSE, m |-> <<13107, 26214, 19660, 57>>, e |-> -52],
      [neg |-> FALSE, m |-> <<16173, 25112, 16857, 230>>, e |-> -53]>>,
    <<[neg |-> FALSE, m |-> <<32767, 32767, 32767, 255>>, e |-> -54],
      [neg |-> FALSE, m |-> <<14293, 203, 1354, 14>>, e |-> -49]>>,
    <<[neg |-> FALSE, m |-> <<6553, 13107, 26214, 140>>, e |-> -53],
      [neg |-> FALSE, m |-> <<4945, 850, 8070, 218>>, e |-> -53]>>,
    <<[neg |-> FALSE, m |-> <<13107, 26214, 19660, 153>>, e |-> -53],
      [neg |-> FALSE, m |-> <<23317, 30864, 9368, 211>>, e |-> -53]>>,
    <<[neg |-> FALSE, m |-> <<19661, 6553, 13107, 166>>, e |-> -53],
      [neg |-> FALSE, m |-> <<19553, 15092, 29449, 101>>, e |-> -52]>>,
    <<[neg |-> FALSE, m |-> <<26215, 19660, 6553, 179>>, e |-> -53],
      [neg |-> FALSE, m |-> <<20169, 21151, 29484, 97>>, e |-> -52]>>,
    <<[neg |-> FALSE, m |-> <<29541, 28762, 1352, 134>>, e |-> -51],
      [neg |-> TRUE, m |-> <<32767, 32767, 32767, 63>>, e |-> -52]>>,
    <<[neg |-> FALSE, m |-> <<25345, 32463, 9826, 67>>, e |-> -50],
      [neg |-> TRUE, m |-> <<13843, 12184, 30468, 129>>, e |-> -53]>>,
    <<[neg |-> FALSE, m |-> <<6303, 2788, 5187, 135>>, e |-> -51],
      [neg |-> TRUE, m |-> <<24049, 9247, 7884, 8>>, e |-> -49]>>,
    <<[neg |-> FALSE, m |-> <<27453, 6184, 23488, 135>>, e |-> -51],
      [neg |-> TRUE, m |-> <<19367, 29818, 14414, 33>>, e |-> -51]>>,
    <<[neg |-> FALSE, m |-> <<24301, 21174, 4510, 68>>, e |-> -50],
      [neg |-> TRUE, m |-> <<23849, 32089, 21604, 135>>, e |-> -53]>>,
    <<[neg |-> FALSE, m |-> <<4215, 12978, 27322, 136>>, e |-> -51],
      [neg |-> TRUE, m |-> <<843, 15536, 6343, 17>>, e |-> -50]>>,
    <<[neg |-> FALSE, m |-> <<22987, 15655, 7906, 137>>, e |-> -51],
      [neg |-> TRUE, m |-> <<17051, 4320, 15082, 69>>, e |-> -52]>>,
    <<[neg |-> FALSE, m |-> <<22725, 28669, 11405, 34>>, e |-> -49],
      [neg |-> TRUE, m |-> <<15245, 22384, 23389, 69>>, e |-> -52]>>,
    <<[neg |-> FALSE, m |-> <<23257, 9885, 31962, 68>>, e |-> -50],
      [neg |-> TRUE, m |-> <<30965, 28714, 21691, 17>>, e |-> -50]>>,
    <<[neg |-> FALSE, m |-> <<2127, 23168, 16689, 138>>, e |-> -51],
      [neg |-> TRUE, m |-> <<32017, 2083, 5026, 143>>, e |-> -53]>>,
    <<[neg |-> FALSE, m |-> <<5819, 23025, 25131, 34>>, e |-> -49],
      [neg |-> TRUE, m |-> <<31545, 30970, 16383, 72>>, e |-> -52]>>,
    <<[neg |-> FALSE, m |-> <<11657, 29961, 20523, 139>>, e |-> -51],
      [neg |-> TRUE, m |-> <<9403, 30844, 13689, 73>>, e |-> -52]>>,
    <<[neg |-> FALSE, m |-> <<19, 16679, 3028, 70>>, e |-> -50],
      [neg |-> TRUE, m |-> <<569, 15070, 21625, 148>>, e |-> -53]>>,
    <<[neg |-> FALSE, m |-> <<8217, 1274, 7230, 70>>, e |-> -50],
      [neg |-> TRUE, m |-> <<31475, 20704, 12237, 37>>, e |-> -51]>>,
    <<[neg |-> FALSE, m |-> <<21681, 17380, 6089, 35>>, e |-> -49],
      [neg |-> TRUE, m |-> <<23133, 2282, 15500, 150>>, e |-> -53]>>,
    <<[neg |-> FALSE, m |-> <<9569, 7383, 9891, 141>>, e |-> -51],
      [neg |-> TRUE, m |-> <<3301, 29440, 1124, 19>>, e |-> -50]>>,
    <<[neg |-> FALSE, m |-> <<31743, 5389, 30480, 70>>, e |-> -50],
      [neg |-> TRUE, m |-> <<28589, 18986, 16913, 38>>, e |-> -51]>>,
    <<[neg |-> FALSE, m |-> <<5331, 23256, 31298, 17>>, e |-> -48],
      [neg |-> TRUE, m |-> <<19941, 26412, 22724, 159>>, e |-> -53]>>,
    <<[neg |-> FALSE, m |-> <<3327, 9102, 27567, 146>>, e |-> -51],
      [neg |-> TRUE, m |-> <<28281, 23521, 16187, 169>>, e |-> -53]>>,
    <<[neg |-> FALSE, m |-> <<29541, 28762, 1352, 150>>, e |-> -51],
      [neg |-> TRUE, m |-> <<10727, 9384, 14268, 89>>, e |-> -52]>>,
    <<[neg |-> FALSE, m |-> <<22987, 15655, 7906, 153>>, e |-> -51],
      [neg |-> TRUE, m |-> <<7479, 12411, 26235, 187>>, e |-> -53]>>,
    <<[neg |-> FALSE, m |-> <<8217, 1274, 7230, 78>>, e |-> -50],
      [neg |-> TRUE, m |-> <<30019, 12470, 4276, 98>>, e |-> -52]>>,
    <<[neg |-> FALSE, m |-> <<5331, 23256, 31298, 19>>, e |-> -48],
      [neg |-> TRUE, m |-> <<14653, 25916, 7563, 204>>, e |-> -53]>>,
    <<[neg |-> FALSE, m |-> <<1663, 20935, 13783, 81>>, e |-> -50],
      [neg |-> TRUE, m |-> <<23301, 23475, 22615, 211>>, e |-> -53]>>,
    <<[neg |-> FALSE, m |-> <<29541, 28762, 1352, 166>>, e |-> -51],
      [neg |-> TRUE, m |-> <<19467, 26135, 10164, 109>>, e |-> -52]>>,
    <<[neg |-> FALSE, m |-> <<22987, 15655, 7906, 169>>, e |-> -51],
      [neg |-> TRUE, m |-> <<22183, 29831, 16452, 112>>, e |-> -52]>>,
    <<[neg |-> FALSE, m |-> <<8217, 1274, 7230, 86>>, e |-> -50],
      [neg |-> TRUE, m |-> <<4563, 27733, 13978, 14>>, e |-> -49]>>,
    <<[neg |-> FALSE, m |-> <<5331, 23256, 31298, 21>>, e |-> -48],
      [neg |-> TRUE, m |-> <<14947, 31706, 2295, 236>>, e |-> -53]>>,
    <<[neg |-> FALSE, m |-> <<3327, 9102, 27567, 178>>, e |-> -51],
      [neg |-> TRUE, m |-> <<26457, 18425, 23739, 240>>, e |-> -53]>>,
    <<[neg |-> FALSE, m |-> <<19767, 11650, 9259, 223>>, e |-> -51],
      [neg |-> TRUE, m |-> <<26449, 18425, 23739, 240>>, e |-> -53]>>,
    <<[neg |-> FALSE, m |-> <<13213, 31311, 15812, 226>>, e |-> -51],
      [neg |-> TRUE, m |-> <<20119, 32502, 573, 59>>, e |-> -51]>>,
    <<[neg |-> FALSE, m |-> <<6659, 18204, 22366, 229>>, e |-> -51],
      [neg |-> TRUE, m |-> <<9125, 22698, 27957, 28>>, e |-> -50]>>,
    <<[neg |-> FALSE, m |-> <<105, 5097, 28920, 232>>, e |-> -51],
      [neg |-> TRUE, m |-> <<11591, 26895, 137, 225>>, e |-> -53]>>,
    <<[neg |-> FALSE, m |-> <<26319, 24757, 2705, 236>>, e |-> -51],
      [neg |-> TRUE, m |-> <<6159, 19503, 20329, 218>>, e |-> -53]>>,
    <<[neg |-> FALSE, m |-> <<19765, 11650, 9259, 239>>, e |-> -51],
      [neg |-> TRUE, m |-> <<23003, 11227, 27096>>, e |-> -45]>>,
    <<[neg |-> FALSE, m |-> <<13211, 31311, 15812, 242>>, e |-> -51],
      [neg |-> TRUE, m |-> <<14647, 25916, 7563, 204>>, e |-> -53]>>,
    <<[neg |-> FALSE, m |-> <<6657, 18204, 22366, 245>>, e |-> -51],
      [neg |-> TRUE, m |-> <<28117, 26818, 17474, 1>>, e |-> -46]>>,
    <<[neg |-> FALSE, m |-> <<103, 5097, 28920, 248>>, e |-> -51],
      [neg |-> TRUE, m |-> <<7475, 12411, 26235, 187>>, e |-> -53]>>,
    <<[neg |-> FALSE, m |-> <<26317, 24757, 2705, 252>>, e |-> -51],
      [neg |-> TRUE, m |-> <<10725, 9384, 14268, 89>>, e |-> -52]>>,
    <<[neg |-> FALSE, m |-> <<19763, 11650, 9259, 255>>, e |-> -51],
      [neg |-> TRUE, m |-> <<28277, 23521, 16187, 169>>, e |-> -53]>>,
    <<[neg |-> FALSE, m |-> <<30323, 20297, 10168, 32>>, e |-> -48],
      [neg |-> TRUE, m |-> <<19943, 26412, 22724, 159>>, e |-> -53]>>,
    <<[neg |-> FALSE, m |-> <<6285, 18877, 2158, 65>>, e |-> -49],
      [neg |-> TRUE, m |-> <<16047, 10411, 2118, 154>>, e |-> -53]>>,
    <<[neg |-> FALSE, m |-> <<19277, 15171, 9875, 16>>, e |-> -47],
      [neg |-> TRUE, m |-> <<26407, 6144, 8999, 152>>, e |-> -53]>>,
    <<[neg |-> FALSE, m |-> <<16859, 4191, 11309, 65>>, e |-> -49],
      [neg |-> TRUE, m |-> <<23135, 2282, 15500, 150>>, e |-> -53]>>,
    <<[neg |-> FALSE, m |-> <<18189, 22435, 16747>>, e |-> -42],
      [neg |-> TRUE, m |-> <<27591, 17283, 16182, 149>>, e |-> -53]>>,
    <<[neg |-> FALSE, m |-> <<11073, 6616, 24326, 32>>, e |-> -48],
      [neg |-> TRUE, m |-> <<577, 15070, 21625, 148>>, e |-> -53]>>,
    <<[neg |-> FALSE, m |-> <<30101, 27520, 26613, 32>>, e |-> -48],
      [neg |-> TRUE, m |-> <<18805, 28920, 27379, 146>>, e |-> -53]>>,
    <<[neg |-> FALSE, m |-> <<32721, 31314, 25034, 65>>, e |-> -49],
      [neg |-> TRUE, m |-> <<15773, 31869, 8191, 36>>, e |-> -51]>>,
    <<[neg |-> FALSE, m |-> <<17039, 9140, 7797, 8>>, e |-> -46],
      [neg |-> TRUE, m |-> <<32395, 1041, 18897, 71>>, e |-> -52]>>,
    <<[neg |-> FALSE, m |-> <<21833, 9735, 2092, 2>>, e |-> -44],
      [neg |-> TRUE, m |-> <<18339, 343, 9695, 141>>, e |-> -53]>>,
    <<[neg |-> FALSE, m |-> <<15815, 25670, 5992, 66>>, e |-> -49],
      [neg |-> TRUE, m |-> <<7623, 27576, 28078, 34>>, e |-> -51]>>,
    <<[neg |-> FALSE, m |-> <<8217, 1274, 7230, 66>>, e |-> -49],
      [neg |-> TRUE, m |-> <<8527, 2160, 23925, 34>>, e |-> -51]>>,
    <<[neg |-> FALSE, m |-> <<26935, 971, 5284, 33>>, e |-> -48],
      [neg |-> TRUE, m |-> <<3375, 29376, 25373, 68>>, e |-> -52]>>,
    <<[neg |-> FALSE, m |-> <<13195, 21876, 7571, 33>>, e |-> -48],
      [neg |-> TRUE, m |-> <<14153, 8022, 29977, 33>>, e |-> -51]>>,
    <<[neg |-> FALSE, m |-> <<31677, 20025, 19718, 66>>, e |-> -49],
      [neg |-> TRUE, m |-> <<5965, 26869, 28829, 66>>, e |-> -52]>>,
    <<[neg |-> FALSE, m |-> <<25625, 15458, 22457, 16>>, e |-> -47],
      [neg |-> TRUE, m |-> <<28555, 8445, 30306, 65>>, e |-> -52]>>,
    <<[neg |-> FALSE, m |-> <<2371, 9527, 23601, 16>>, e |-> -47],
      [neg |-> TRUE, m |-> <<6919, 6092, 31618, 64>>, e |-> -52]>>,
    <<[neg |-> FALSE, m |-> <<12327, 1911, 10845, 89>>, e |-> -49],
      [neg |-> FALSE, m |-> <<7583, 9535, 26201, 195>>, e |-> -53]>>,
    <<[neg |-> FALSE, m |-> <<4993, 30037, 8582, 180>>, e |-> -50],
      [neg |-> FALSE, m |-> <<6349, 30185, 26130, 203>>, e |-> -53]>>,
    <<[neg |-> FALSE, m |-> <<29101, 30446, 15252, 45>>, e |-> -48],
      [neg |-> FALSE, m |-> <<11663, 15432, 21068, 105>>, e |-> -52]>>,
    <<[neg |-> FALSE, m |-> <<31207, 16929, 15136, 183>>, e |-> -50],
      [neg |-> FALSE, m |-> <<4953, 850, 8070, 218>>, e |-> -53]>>,
    <<[neg |-> FALSE, m |-> <<5773, 21572, 17398, 92>>, e |-> -49],
      [neg |-> FALSE, m |-> <<16043, 1627, 10832, 112>>, e |-> -52]>>,
    <<[neg |-> FALSE, m |-> <<24653, 3822, 21690, 186>>, e |-> -50],
      [neg |-> FALSE, m |-> <<16179, 25112, 16857, 230>>, e |-> -53]>>,
    <<[neg |-> FALSE, m |-> <<21799, 1770, 15427, 1>>, e |-> -43],
      [neg |-> FALSE, m |-> <<26815, 29677, 31060, 58>>, e |-> -51]>>,
    <<[neg |-> FALSE, m |-> <<18099, 23483, 28243, 189>>, e |-> -50],
      [neg |-> FALSE, m |-> <<29405, 23821, 7854, 120>>, e |-> -52]>>,
    <<[neg |-> FALSE, m |-> <<31987, 8464, 23952, 95>>, e |-> -49],
      [neg |-> FALSE, m |-> <<2493, 10334, 18551, 244>>, e |-> -53]>>,
    <<[neg |-> FALSE, m |-> <<11545, 10376, 2029, 193>>, e |-> -50],
      [neg |-> FALSE, m |-> <<28323, 16123, 1362, 248>>, e |-> -53]>>,
    <<[neg |-> FALSE, m |-> <<22547, 17339, 21806, 48>>, e |-> -48],
      [neg |-> FALSE, m |-> <<25211, 10990, 29394, 250>>, e |-> -53]>>,
    <<[neg |-> FALSE, m |-> <<4991, 30037, 8582, 196>>, e |-> -50],
      [neg |-> FALSE, m |-> <<23847, 20375, 20993, 31>>, e |-> -50]>>,
    <<[neg |-> FALSE, m |-> <<31411, 13033, 9440, 49>>, e |-> -48],
      [neg |-> FALSE, m |-> <<4003, 4817, 17136, 63>>, e |-> -51]>>,
    <<[neg |-> FALSE, m |-> <<2573, 2341, 23456, 98>>, e |-> -49],
      [neg |-> FALSE, m |-> <<27735, 26774, 11612, 254>>, e |-> -53]>>,
    <<[neg |-> FALSE, m |-> <<15721, 22764, 23294, 197>>, e |-> -50],
      [neg |-> FALSE, m |-> <<13283, 5368, 9791, 127>>, e |-> -52]>>,
    <<[neg |-> FALSE, m |-> <<25433, 28125, 30505, 98>>, e |-> -49],
      [neg |-> FALSE, m |-> <<6081, 29520, 23627, 254>>, e |-> -53]>>,
    <<[neg |-> FALSE, m |-> <<26295, 8078, 32445, 197>>, e |-> -50],
      [neg |-> FALSE, m |-> <<6053, 16803, 26916, 254>>, e |-> -53]>>,
    <<[neg |-> FALSE, m |-> <<18435, 29464, 4413, 99>>, e |-> -49],
      [neg |-> FALSE, m |-> <<2769, 13336, 16807, 127>>, e |-> -52]>>,
    <<[neg |-> FALSE, m |-> <<14677, 11475, 17978, 198>>, e |-> -50],
      [neg |-> FALSE, m |-> <<24751, 23628, 6908, 255>>, e |-> -53]>>,
    <<[neg |-> FALSE, m |-> <<25251, 29557, 27128, 198>>, e |-> -50],
      [neg |-> FALSE, m |-> <<32763, 29040, 22550, 127>>, e |-> -52]>>,
    <<[neg |-> FALSE, m |-> <<1529, 23820, 18139, 99>>, e |-> -49],
      [neg |-> FALSE, m |-> <<2853, 25479, 24944, 127>>, e |-> -52]>>,
    <<[neg |-> FALSE, m |-> <<29909, 27650, 3781, 3>>, e |-> -44],
      [neg |-> FALSE, m |-> <<26141, 23077, 21271, 255>>, e |-> -53]>>,
    <<[neg |-> FALSE, m |-> <<31205, 16929, 15136, 199>>, e |-> -50],
      [neg |-> FALSE, m |-> <<4683, 18122, 31457, 31>>, e |-> -50]>>,
    <<[neg |-> FALSE, m |-> <<24207, 18268, 21812, 199>>, e |-> -50],
      [neg |-> FALSE, m |-> <<17911, 29620, 24783, 255>>, e |-> -53]>>,
    <<[neg |-> FALSE, m |-> <<17391, 18175, 31865, 99>>, e |-> -49],
      [neg |-> FALSE, m |-> <<1383, 29054, 27657, 255>>, e |-> -53]>>,
    <<[neg |-> FALSE, m |-> <<11339, 13608, 1836, 50>>, e |-> -48],
      [neg |-> FALSE, m |-> <<17013, 14206, 29893, 255>>, e |-> -53]>>,
    <<[neg |-> FALSE, m |-> <<23163, 6979, 16496, 200>>, e |-> -50],
      [neg |-> FALSE, m |-> <<22469, 6133, 32129, 127>>, e |-> -52]>>,
    <<[neg |-> FALSE, m |-> <<485, 12531, 12823, 100>>, e |-> -49],
      [neg |-> FALSE, m |-> <<18893, 19251, 32448, 255>>, e |-> -53]>>,
    <<[neg |-> FALSE, m |-> <<18189, 22435, 15723>>, e |-> -41],
      [neg |-> FALSE, m |-> <<4977, 17781, 27844, 89>>, e |-> -54]>>,
    <<[neg |-> FALSE, m |-> <<21325, 27488, 26890, 61>>, e |-> -48],
      [neg |-> FALSE, m |-> <<1593, 6085, 2964, 129>>, e |-> -55]>>,
    <<[neg |-> FALSE, m |-> <<16435, 2548, 14460, 124>>, e |-> -49],
      [neg |-> FALSE, m |-> <<2115, 13062, 5202, 78>>, e |-> -55]>>,
    <<[neg |-> FALSE, m |-> <<22989, 15655, 7906, 125>>, e |-> -49],
      [neg |-> FALSE, m |-> <<15803, 14246, 8313, 216>>, e |-> -58]>>,
    <<[neg |-> FALSE, m |-> <<14771, 14381, 676, 63>>, e |-> -48],
      [neg |-> TRUE, m |-> <<21501, 2172, 21352, 96>>, e |-> -57]>>,
    <<[neg |-> FALSE, m |-> <<18189, 22435, 16235>>, e |-> -41],
      [neg |-> TRUE, m |-> <<8607, 13094, 19472, 150>>, e |-> -56]>>,
    <<[neg |-> FALSE, m |-> <<9881, 22209, 21013, 127>>, e |-> -49],
      [neg |-> TRUE, m |-> <<21371, 21749, 3983, 63>>, e |-> -54]>>,
    <<[neg |-> FALSE, m |-> <<16435, 2548, 14460, 128>>, e |-> -49],
      [neg |-> TRUE, m |-> <<31547, 22701, 7156, 44>>, e |-> -53]>>,
    <<[neg |-> FALSE, m |-> <<30323, 20297, 10168, 32>>, e |-> -47],
      [neg |-> TRUE, m |-> <<12807, 24459, 2031, 227>>, e |-> -55]>>,
    <<[neg |-> FALSE, m |-> <<14771, 14381, 676, 65>>, e |-> -48],
      [neg |-> TRUE, m |-> <<6873, 30123, 5593, 69>>, e |-> -53]>>,
    <<[neg |-> FALSE, m |-> <<3327, 9102, 27567, 130>>, e |-> -49],
      [neg |-> TRUE, m |-> <<26621, 7705, 26413, 162>>, e |-> -54]>>,
    <<[neg |-> FALSE, m |-> <<9881, 22209, 21013, 131>>, e |-> -49],
      [neg |-> TRUE, m |-> <<13993, 11042, 28304, 186>>, e |-> -54]>>,
    <<[neg |-> FALSE, m |-> <<21055, 490, 2835, 132>>, e |-> -49],
      [neg |-> TRUE, m |-> <<16361, 4428, 445, 50>>, e |-> -52]>>,
    <<[neg |-> FALSE, m |-> <<29555, 4765, 3705, 66>>, e |-> -48],
      [neg |-> TRUE, m |-> <<659, 26699, 1306, 51>>, e |-> -52]>>,
    <<[neg |-> FALSE, m |-> <<15815, 25670, 5992, 66>>, e |-> -48],
      [neg |-> TRUE, m |-> <<6869, 16908, 8164, 208>>, e |-> -54]>>,
    <<[neg |-> FALSE, m |-> <<8217, 1274, 7230, 66>>, e |-> -48],
      [neg |-> TRUE, m |-> <<11247, 12236, 7445, 105>>, e |-> -53]>>,
    <<[neg |-> FALSE, m |-> <<4149, 27614, 16560, 132>>, e |-> -49],
      [neg |-> TRUE, m |-> <<10959, 3466, 10582, 212>>, e |-> -54]>>,
    <<[neg |-> FALSE, m |-> <<26935, 971, 5284, 33>>, e |-> -47],
      [neg |-> TRUE, m |-> <<19491, 30519, 6234, 108>>, e |-> -53]>>,
    <<[neg |-> FALSE, m |-> <<3681, 27808, 6427, 33>>, e |-> -47],
      [neg |-> TRUE, m |-> <<21629, 21677, 13817, 220>>, e |-> -54]>>,
    <<[neg |-> FALSE, m |-> <<20011, 21969, 30286, 132>>, e |-> -49],
      [neg |-> TRUE, m |-> <<739, 23230, 7307, 112>>, e |-> -53]>>,
    <<[neg |-> FALSE, m |-> <<12649, 31889, 17430, 66>>, e |-> -48],
      [neg |-> TRUE, m |-> <<20125, 17846, 7426, 114>>, e |-> -53]>>,
    <<[neg |-> FALSE, m |-> <<30585, 7283, 6669, 133>>, e |-> -49],
      [neg |-> TRUE, m |-> <<24045, 22153, 14520, 232>>, e |-> -54]>>,
    <<[neg |-> FALSE, m |-> <<30323, 20297, 10168, 33>>, e |-> -47],
      [neg |-> TRUE, m |-> <<6719, 10528, 17008, 233>>, e |-> -54]>>,
    <<[neg |-> FALSE, m |-> <<3105, 16325, 11244, 133>>, e |-> -49],
      [neg |-> TRUE, m |-> <<22329, 7272, 13608, 236>>, e |-> -54]>>,
    <<[neg |-> FALSE, m |-> <<25625, 15458, 22457, 16>>, e |-> -46],
      [neg |-> TRUE, m |-> <<17671, 20100, 756, 15>>, e |-> -50]>>,
    <<[neg |-> FALSE, m |-> <<13679, 1639, 20395, 133>>, e |-> -49],
      [neg |-> TRUE, m |-> <<8509, 20057, 20792, 7>>, e |-> -49]>>,
    <<[neg |-> FALSE, m |-> <<18967, 10680, 24970, 133>>, e |-> -49],
      [neg |-> TRUE, m |-> <<8431, 23519, 7291, 248>>, e |-> -54]>>,
    <<[neg |-> FALSE, m |-> <<28511, 26244, 31156, 66>>, e |-> -48],
      [neg |-> TRUE, m |-> <<25837, 1766, 16879, 31>>, e |-> -51]>> }

Cos(x) == LET p == CHOOSE q \in CosTable : q[1] = x IN p[2]

(***************************************************************************)
(* Bounds of the model.                                                    *)
(***************************************************************************)
\* ticks issued per run of the controller (Spec)
MaxTicks == 12

\* position steps per run of the position tracker (SpecPosition)
MaxSteps == 52

\* periods either side of zero from which normalize inputs are drawn (SpecNormalize)
MaxPeriods == 2

\* passes of the loop of __main__ (SpecMain)
MaxMainTicks == 8

\* table positions are drawn as k / g for every g up to this (SpecValues)
MaxGrid == 10

\* forward ticks of a run that is then retraced backward (SpecReturn)
MaxRun == 128

(***************************************************************************)
(* State.                                                                  *)
(***************************************************************************)
VARIABLES
  variant,    \* which script runs: "rad", "deg" or "table"
  running,    \* self.running
  position,   \* self.angle / self.degrees / self.current_step
  direction,  \* travel direction, 1 or -1 (main's direction / self.direction)
  duty,       \* duty[ph][side]: duty_cycle of the six PWM outputs
  phase,      \* <<phase_a, phase_b, phase_c>> of the last running update
  pending,    \* writes and sleeps of the current call still to be executed
  trace,      \* what the current call has done so far, in order
  call,       \* the call in progress, or the last one made
  ticks,      \* number of ticks (position steps) issued so far
  started,    \* start() has been called
  idx,        \* argument of the normalize call under test
  ret,        \* its return value
  pc,         \* where the __main__ program is
  fault,      \* the duty write that raised, if one did
  path        \* the positions a forward run has passed, in order

vars == <<variant, running, position, direction, duty, phase, pending, trace,
          call, ticks, started, idx, ret, pc, fault, path>>

Phases == {"A", "B", "C"}

Sides == {"H", "L"}

AngleVariant == variant \in {"rad", "deg"}

(***************************************************************************)
(* Externally observable effects of a call, in program order.              *)
(***************************************************************************)
\* pwm_<ph><side>.duty_cycle = d
Write(ph, side, d) ==
  [kind |-> "write", phase |-> ph, side |-> side, duty |-> d, prev |-> 0]

\* time.sleep(DEAD_TIME) inside apply_phase for phase ph
Sleep(ph) ==
  [kind |-> "sleep", phase |-> ph, side |-> "-", duty |-> 0, prev |-> 0]

\* the position has been stepped
Advanced ==
  [kind |-> "advance", phase |-> "-", side |-> "-", duty |-> 0, prev |-> 0]

\* no duty write has raised
NoFault ==
  [kind |-> "none", phase |-> "-", side |-> "-", duty |-> 0, prev |-> 0]

\* output_off() that forgets the last output, pwm_cl
OutputOffButLast ==
  << Write("A", "H", 0), Write("A", "L", 0),
     Write("B", "H", 0), Write("B", "L", 0),
     Write("C", "H", 0) >>

\* output_off(): all six outputs to zero, ah al bh bl ch cl
OutputOff ==
  << Write("A", "H", 0), Write("A", "L", 0),
     Write("B", "H", 0), Write("B", "L", 0),
     Write("C", "H", 0), Write("C", "L", 0) >>

\* the duty rounded to the nearest integer instead of truncated
DutyOfRounded(value) ==
  LET x == FMulInt(value, PWM_MAX)
      t == FTrunc(x)
      c == FCmp(FSub(x, FOfInt(t)), FDivInt(FOfInt(1), 2))
  IN  IF c > 0 \/ (c = 0 /\ t % 2 = 1) THEN t + 1 ELSE t

\* int(value * PWM_MAX)
DutyOf(value) == FTrunc(FMulInt(value, PWM_MAX))

\* apply_phase energizing the active side before the opposite side is off
ApplyPhaseOnFirst(ph, value) ==
  IF FGe(value, FZero)
  THEN << Write(ph, "H", DutyOf(value)), Sleep(ph), Write(ph, "L", 0) >>
  ELSE << Write(ph, "L", DutyOf(FNeg(value))), Sleep(ph), Write(ph, "H", 0) >>

\* apply_phase sleeping after both writes, with no dead time between them
ApplyPhaseSleepLast(ph, value) ==
  IF FGe(value, FZero)
  THEN << Write(ph, "L", 0), Write(ph, "H", DutyOf(value)), Sleep(ph) >>
  ELSE << Write(ph, "H", 0), Write(ph, "L", DutyOf(FNeg(value))), Sleep(ph) >>

\* apply_phase of code.py and sine/code.py: value in [-1, 1]
ApplyPhase(ph, value) ==
  IF FGe(value, FZero)
  THEN << Write(ph, "L", 0), Sleep(ph), Write(ph, "H", DutyOf(value)) >>
  ELSE << Write(ph, "H", 0), Sleep(ph), Write(ph, "L", DutyOf(FNeg(value))) >>

\* apply_phase of the table without the sign change in the negative branch
ApplyPhaseTableUnsigned(ph, value) ==
  LET multiplier == FDivInt(value, 100)
  IN  IF FGe(value, FZero)
      THEN << Write(ph, "L", 0), Sleep(ph), Write(ph, "H", DutyOf(multiplier)) >>
      ELSE << Write(ph, "H", 0), Sleep(ph), Write(ph, "L", DutyOf(multiplier)) >>

\* apply_phase of step_table/code.py: value in [-100, 100]
ApplyPhaseTable(ph, value) ==
  LET multiplier == FDivInt(value, 100)
  IN  IF FGe(value, FZero)
      THEN << Write(ph, "L", 0), Sleep(ph), Write(ph, "H", DutyOf(multiplier)) >>
      ELSE << Write(ph, "H", 0), Sleep(ph),
              Write(ph, "L", DutyOf(FMulInt(multiplier, -1))) >>

ApplyPhaseOf(v, ph, value) ==
  IF v = "table" THEN ApplyPhaseTable(ph, value) ELSE ApplyPhase(ph, value)

\* the three apply_phase calls with phase B served before phase A
ApplyAllBAC(v, ph3) ==
  ApplyPhaseOf(v, "B", ph3[2]) \o ApplyPhaseOf(v, "A", ph3[1]) \o ApplyPhaseOf(v, "C", ph3[3])

\* "Apply to H-bridges": the three apply_phase calls of update() / step()
ApplyAll(v, ph3) ==
  ApplyPhaseOf(v, "A", ph3[1]) \o ApplyPhaseOf(v, "B", ph3[2]) \o ApplyPhaseOf(v, "C", ph3[3])

(***************************************************************************)
(* Position tracking.                                                      *)
(***************************************************************************)
\* if x >= P: x -= P  elif x < 0: x += P
Wrap(x, P) ==
  IF FGe(x, P) THEN FSub(x, P)
  ELSE IF FLt(x, FZero) THEN FAdd(x, P)
  ELSE x

\* normalize_step(idx)
NormalizeStep(i) == Wrap(i, FOfInt(NUM_STEPS))

\* a step that adds the increment whatever the direction
MovedOneWay(v, pos, dir) == FAdd(pos, StepIncrement(v))

\* position += / -= step_increment by direction
Moved(v, pos, dir) ==
  IF dir = DIRECTION_FORWARDS THEN FAdd(pos, StepIncrement(v)) ELSE FSub(pos, StepIncrement(v))

\* step(direction) of code.py and sine/code.py
StepAngle(v, pos, dir) == Wrap(Moved(v, pos, dir), Period(v))

\* "Increment current step" of step_table/code.py step()
StepTable(pos, dir) == NormalizeStep(Moved("table", pos, dir))

(***************************************************************************)
(* Waveform generation.                                                    *)
(***************************************************************************)
\* phase values with the offsets of phases B and C exchanged
PhaseValuesRadSwapped(angle) ==
  << Cos(angle), Cos(FAdd(angle, PHASE_ANGLE)), Cos(FSub(angle, PHASE_ANGLE)) >>

\* code.py update(): cos(angle), cos(angle - PHASE_ANGLE), cos(angle + PHASE_ANGLE)
PhaseValuesRad(angle) ==
  << Cos(angle), Cos(FSub(angle, PHASE_ANGLE)), Cos(FAdd(angle, PHASE_ANGLE)) >>

\* sine/code.py update(): the same at radians = degrees * DEGREE_TO_RADIAN_MULTIPLIER
PhaseValuesDeg(degrees) ==
  LET radians == FMul(degrees, DEGREE_TO_RADIAN_MULTIPLIER)
  IN  << Cos(radians), Cos(FSub(radians, PHASE_ANGLE)), Cos(FAdd(radians, PHASE_ANGLE)) >>

\* a bracket start that ignores the direction of travel
FromIdxFloor(cur, dir) == FFloor(cur)

\* from_idx before wrapping
FromIdx(cur, dir) == IF dir = DIRECTION_FORWARDS THEN FFloor(cur) ELSE FCeil(cur)

\* to_idx before wrapping
ToIdx(cur, dir) == IF dir = DIRECTION_FORWARDS THEN FCeil(cur) ELSE FFloor(cur)

\* progress made to the next step in the list
Progress(cur, dir) ==
  IF dir = DIRECTION_FORWARDS
  THEN FSub(FOfInt(1), FSub(FOfInt(ToIdx(cur, dir)), cur))
  ELSE FSub(FOfInt(1), FSub(cur, FOfInt(ToIdx(cur, dir))))

\* an index brought into range by clamping instead of wrapping
NormalizeIdxClamped(i) ==
  IF i >= NUM_STEPS THEN NUM_STEPS - 1 ELSE IF i < 0 THEN 0 ELSE i

\* normalize_step applied to an integer index
NormalizeIdx(i) == FTrunc(NormalizeStep(FOfInt(i)))

\* the table row one past the index asked for
RowOffByOne(i) == STEPS[((i + 1) % NUM_STEPS) + 1]

\* STEPS[i] with Python's 0-based index
Row(i) == STEPS[i + 1]

\* interpolation that forgets to add from_value to the scaled difference
InterpolateNoOffset(from_value, to_value, percent) ==
  IF from_value = to_value THEN FOfInt(to_value)
  ELSE IF FLe(percent, FZero) THEN FOfInt(from_value)
  ELSE IF FGe(percent, FOfInt(1)) THEN FOfInt(to_value)
  ELSE FMulInt(percent, to_value - from_value)

\* interpolate_value(from_value, to_value, percent)
InterpolateValue(from_value, to_value, percent) ==
  IF from_value = to_value THEN FOfInt(to_value)
  ELSE IF FLe(percent, FZero) THEN FOfInt(from_value)
  ELSE IF FGe(percent, FOfInt(1)) THEN FOfInt(to_value)
  ELSE FAdd(FMulInt(percent, to_value - from_value), FOfInt(from_value))

\* step_table/code.py step(): "Calculate the phase values" at the stepped position
PhaseValuesTable(cur, dir) ==
  LET progress == Progress(cur, dir)
      to_idx   == NormalizeIdx(ToIdx(cur, dir))
      from_idx == NormalizeIdx(FromIdx(cur, dir))
      from     == Row(from_idx)
      to       == Row(to_idx)
  IN  << InterpolateValue(from[1], to[1], progress),
         InterpolateValue(from[2], to[2], progress),
         InterpolateValue(from[3], to[3], progress) >>

PhaseValues(v, pos, dir) ==
  IF v = "rad" THEN PhaseValuesRad(pos)
  ELSE IF v = "deg" THEN PhaseValuesDeg(pos)
  ELSE PhaseValuesTable(pos, dir)

(***************************************************************************)
(* The controller.                                                         *)
(***************************************************************************)
AllOff == [ph \in Phases |-> [sd \in Sides |-> 0]]

\* the controller as __init__ leaves it (the PWM outputs are created with duty 0)
Init ==
  /\ variant \in Variants
  /\ running = TRUE
  /\ position = InitialPosition(variant)
  /\ direction = DIRECTION_FORWARDS
  /\ duty = AllOff
  /\ phase = <<FZero, FZero, FZero>>
  /\ pending = <<>>
  /\ trace = <<>>
  /\ call = "init"
  /\ ticks = 0
  /\ started = FALSE
  /\ idx = FZero
  /\ ret = FZero
  /\ pc = "created"
  /\ fault = NoFault
  /\ path = <<>>

Idle == pending = <<>> /\ call # "normalize"

\* a start() that also takes the position back to where the constructor put it
StartFromHome ==
  /\ Idle
  /\ running' = TRUE
  /\ started' = TRUE
  /\ position' = InitialPosition(variant)
  /\ call' = "start"
  /\ trace' = <<>>
  /\ UNCHANGED <<pc, fault, variant, direction, duty, phase, pending, ticks, idx, ret, path>>

\* start()
Start ==
  /\ Idle
  /\ running' = TRUE
  /\ started' = TRUE
  /\ call' = "start"
  /\ trace' = <<>>
  /\ UNCHANGED <<pc, fault, variant, position, direction, duty, phase, pending, ticks, idx, ret, path>>

\* stop(): running = False, then output_off()
Stop ==
  /\ Idle
  /\ running' = FALSE
  /\ pending' = OutputOff
  /\ call' = "stop"
  /\ trace' = <<>>
  /\ UNCHANGED <<pc, fault, variant, position, direction, duty, phase, ticks, started, idx, ret, path>>

\* direction *= -1
Flip ==
  /\ Idle
  /\ direction' = -1 * direction
  /\ call' = "flip"
  /\ trace' = <<>>
  /\ UNCHANGED <<pc, fault, variant, running, position, duty, phase, pending, ticks, started, idx, ret, path>>

\* update() of code.py and sine/code.py, entered with the position pos
UpdateFrom(pos) ==
  IF ~running
  THEN /\ pending' = OutputOff
       /\ phase' = phase
  ELSE /\ phase' = PhaseValues(variant, pos, direction)
       /\ pending' = ApplyAll(variant, phase')

\* one pass of the main loop of code.py and sine/code.py: step(direction); update()
TickAngle ==
  /\ Idle
  /\ AngleVariant
  /\ ticks < MaxTicks
  /\ position' = StepAngle(variant, position, direction)
  /\ UpdateFrom(position')
  /\ trace' = <<Advanced>>
  /\ call' = "tick"
  /\ ticks' = ticks + 1
  /\ UNCHANGED <<pc, fault, variant, running, direction, duty, started, idx, ret, path>>

\* update() called on its own, as main does once after start()
Update ==
  /\ Idle
  /\ AngleVariant
  /\ UpdateFrom(position)
  /\ trace' = <<>>
  /\ call' = "update"
  /\ UNCHANGED <<pc, fault, variant, running, position, direction, duty, ticks, started, idx, ret, path>>

\* step() of step_table/code.py
TickTable ==
  /\ Idle
  /\ variant = "table"
  /\ ticks < MaxTicks
  /\ IF ~running
     THEN /\ pending' = OutputOff
          /\ trace' = <<>>
          /\ UNCHANGED <<position, phase>>
     ELSE /\ position' = StepTable(position, direction)
          /\ phase' = PhaseValuesTable(position', direction)
          /\ pending' = ApplyAll(variant, phase')
          /\ trace' = <<Advanced>>
  /\ call' = "tick"
  /\ ticks' = ticks + 1
  /\ UNCHANGED <<pc, fault, variant, running, direction, duty, started, idx, ret, path>>

\* the duties after the effect e
DutyAfter(d, e) ==
  IF e.kind = "write" THEN [d EXCEPT ![e.phase][e.side] = e.duty] ELSE d

\* the effect e as observed: with the duty it replaced
Observed(d, e) ==
  IF e.kind = "write" THEN [e EXCEPT !.prev = d[e.phase][e.side]] ELSE e

\* the next write or sleep of the call in progress
Effect ==
  /\ pending # <<>>
  /\ duty' = DutyAfter(duty, Head(pending))
  /\ trace' = Append(trace, Observed(duty, Head(pending)))
  /\ pending' = Tail(pending)
  /\ UNCHANGED <<pc, fault, variant, running, position, direction, phase, call, ticks, started, idx, ret, path>>

Next == Start \/ Stop \/ Flip \/ TickAngle \/ Update \/ TickTable \/ Effect

Spec == Init /\ [][Next]_vars

(***************************************************************************)
(* The position tracker on its own: steps and direction flips only.        *)
(***************************************************************************)
\* step(direction) of code.py and sine/code.py, as next_step() / previous_step() call it
StepOnly ==
  /\ Idle
  /\ AngleVariant
  /\ ticks < MaxSteps
  /\ position' = StepAngle(variant, position, direction)
  /\ call' = "step"
  /\ trace' = <<Advanced>>
  /\ ticks' = ticks + 1
  /\ UNCHANGED <<pc, fault, variant, running, direction, duty, phase, pending, started, idx, ret, path>>

\* step() of step_table/code.py up to its first duty write: the writes and the
\* dead-time sleeps of its three apply_phase calls follow one at a time (Effect)
StepTableCall ==
  /\ Idle
  /\ variant = "table"
  /\ ticks < MaxSteps
  /\ IF ~running
     THEN /\ pending' = OutputOff
          /\ trace' = <<>>
          /\ UNCHANGED <<position, phase>>
     ELSE /\ position' = StepTable(position, direction)
          /\ phase' = PhaseValuesTable(position', direction)
          /\ pending' = ApplyAll(variant, phase')
          /\ trace' = <<Advanced>>
  /\ call' = "tick"
  /\ ticks' = ticks + 1
  /\ UNCHANGED <<pc, fault, variant, running, direction, duty, started, idx, ret, path>>

NextPosition == StepOnly \/ StepTableCall \/ Flip \/ Effect

SpecPosition == Init /\ [][NextPosition]_vars

(***************************************************************************)
(* The wrap operation on its own: normalize applied to one argument.       *)
(***************************************************************************)
\* k eighths of a period, k in -8*MaxPeriods .. 8*MaxPeriods, and the negative
\* powers of two just below zero that a backward step can leave behind
NormalizeInputs(v) ==
  { FMulInt(FDivInt(Period(v), 8), k) : k \in (-8 * MaxPeriods) .. (8 * MaxPeriods) }
  \cup { [neg |-> TRUE, m |-> <<1>>, e |-> -j] : j \in 48 .. 56 }

InitNormalize ==
  /\ variant \in Variants
  /\ idx \in NormalizeInputs(variant)
  /\ ret = FZero
  /\ running = TRUE
  /\ position = InitialPosition(variant)
  /\ direction = DIRECTION_FORWARDS
  /\ duty = AllOff
  /\ phase = <<FZero, FZero, FZero>>
  /\ pending = <<>>
  /\ trace = <<>>
  /\ call = "init"
  /\ ticks = 0
  /\ started = FALSE
  /\ pc = "created"
  /\ fault = NoFault
  /\ path = <<>>

\* ret = normalize(idx): normalize_step, or the wrap at the end of step(direction)
Normalize ==
  /\ call = "init"
  /\ ret' = Wrap(idx, Period(variant))
  /\ call' = "normalize"
  /\ UNCHANGED <<pc, fault, variant, running, position, direction, duty, phase, pending, trace,
                 ticks, started, idx, path>>

NextNormalize == Normalize

SpecNormalize == InitNormalize /\ [][NextNormalize]_vars

(***************************************************************************)
(* The __main__ program: start, the endless loop of ticks, and the         *)
(* except / finally around it, with duty writes that can raise.            *)
(***************************************************************************)
\* target_cycle: round(2 * pi / 0.05 * 2), round(360 / 0.5 * 1.5), round(24 * (0.1 * 100)) * 2
TargetCycle(v) == IF v = "rad" THEN 251 ELSE IF v = "deg" THEN 1080 ELSE 480

\* a handler that swallows the exception where it was raised and goes on with the call
RaiseAndResume(p) == Tail(p)

\* what is left of a call whose duty write raised, with p still to do: the
\* exception unwinds apply_phase / output_off, update / step and the loop, so nothing
Raise(p) == <<>>

\* actuator.start(), first statement of the try block
MainStart ==
  /\ pc = "created"
  /\ running' = TRUE
  /\ started' = TRUE
  /\ call' = "start"
  /\ trace' = <<>>
  /\ pc' = IF AngleVariant THEN "started" ELSE "loop"
  /\ UNCHANGED <<variant, position, direction, duty, phase, pending, ticks, idx, ret, fault, path>>

\* actuator.update() before the loop (code.py and sine/code.py)
MainUpdate ==
  /\ pc = "started"
  /\ UpdateFrom(position)
  /\ call' = "update"
  /\ trace' = <<>>
  /\ pc' = "loop"
  /\ UNCHANGED <<variant, running, position, direction, duty, ticks, started, idx, ret, fault, path>>

\* the tick of one pass of the loop: step(direction); update(), or step() of the table
MainPass ==
  /\ pc = "loop"
  /\ pending = <<>>
  /\ ticks < MaxMainTicks
  /\ IF AngleVariant
     THEN /\ position' = StepAngle(variant, position, direction)
          /\ UpdateFrom(position')
          /\ trace' = <<Advanced>>
     ELSE IF ~running
     THEN /\ pending' = OutputOff
          /\ trace' = <<>>
          /\ UNCHANGED <<position, phase>>
     ELSE /\ position' = StepTable(position, direction)
          /\ phase' = PhaseValuesTable(position', direction)
          /\ pending' = ApplyAll(variant, phase')
          /\ trace' = <<Advanced>>
  /\ call' = "tick"
  /\ pc' = "pass"
  /\ UNCHANGED <<variant, running, direction, duty, ticks, started, idx, ret, fault, path>>

\* the rest of the pass, once the tick has returned:
\* steps += 1; if steps % target_cycle == 0: direction *= -1
PassEnd ==
  /\ pc = "pass"
  /\ pending = <<>>
  /\ ticks' = ticks + 1
  /\ direction' = IF ticks' % TargetCycle(variant) = 0 THEN -1 * direction ELSE direction
  /\ pc' = "loop"
  /\ UNCHANGED <<variant, running, position, duty, phase, pending, trace, call, started,
                 idx, ret, fault, path>>

\* the next duty write of the call in progress raises: the output keeps its duty
\* or has taken the new one, the rest of the call is abandoned, and control is in
\* the except clause, or out of the program when it was stop() in the finally clause
Fault ==
  /\ pc \in {"loop", "pass", "finally"}
  /\ pending # <<>>
  /\ Head(pending).kind = "write"
  /\ duty' \in {duty, DutyAfter(duty, Head(pending))}
  /\ trace' = Append(trace, [Observed(duty, Head(pending)) EXCEPT !.kind = "fault"])
  /\ fault' = IF fault.kind = "none"
              THEN [Observed(duty, Head(pending)) EXCEPT !.kind = "fault"]
              ELSE fault
  /\ pending' = Raise(pending)
  /\ pc' = IF pc = "finally" THEN "crashed" ELSE "except"
  /\ UNCHANGED <<variant, running, position, direction, phase, call, ticks, started, idx, ret, path>>

\* a finally clause that leaves without calling stop()
FinallySkipsStop ==
  /\ pc = "except"
  /\ pc' = "exited"
  /\ UNCHANGED <<variant, running, position, direction, duty, phase, pending, trace, call,
                 ticks, started, idx, ret, fault, path>>

\* except Exception: print; finally: actuator.stop()
Finally ==
  /\ pc = "except"
  /\ running' = FALSE
  /\ pending' = OutputOff
  /\ call' = "stop"
  /\ trace' = <<>>
  /\ pc' = "finally"
  /\ UNCHANGED <<variant, position, direction, duty, phase, ticks, started, idx, ret, fault, path>>

\* stop() has returned: the program ends
Exit ==
  /\ pc = "finally"
  /\ pending = <<>>
  /\ pc' = "exited"
  /\ UNCHANGED <<variant, running, position, direction, duty, phase, pending, trace, call,
                 ticks, started, idx, ret, fault, path>>

NextMain ==
  MainStart \/ MainUpdate \/ MainPass \/ PassEnd \/ Effect \/ Fault \/ Finally \/ Exit

SpecMain == Init /\ [][NextMain]_vars

(***************************************************************************)
(* The table waveform on its own: the phase values of one position.        *)
(***************************************************************************)
\* the positions k / g in [0, NUM_STEPS), for every grid g up to MaxGrid
ValueInputs ==
  { FDivInt(FOfInt(k), g) : k \in 0 .. (MaxGrid * NUM_STEPS - 1), g \in 1 .. MaxGrid }

InitValues ==
  /\ variant = "table"
  /\ position \in { p \in ValueInputs : FLt(p, FOfInt(NUM_STEPS)) }
  /\ direction \in {DIRECTION_FORWARDS, DIRECTION_BACKWARDS}
  /\ running = TRUE
  /\ duty = AllOff
  /\ phase = <<FZero, FZero, FZero>>
  /\ pending = <<>>
  /\ trace = <<>>
  /\ call = "init"
  /\ ticks = 0
  /\ started = FALSE
  /\ idx = FZero
  /\ ret = FZero
  /\ pc = "created"
  /\ fault = NoFault
  /\ path = <<>>

\* step() of step_table/code.py from "Get the percent progress" to the three
\* interpolate_value calls, at the position current_step and the direction given
ValuesAt ==
  /\ call = "init"
  /\ phase' = PhaseValuesTable(position, direction)
  /\ call' = "values"
  /\ UNCHANGED <<variant, running, position, direction, duty, pending, trace, ticks,
                 started, idx, ret, pc, fault, path>>

NextValues == ValuesAt

SpecValues == InitValues /\ [][NextValues]_vars

(***************************************************************************)
(* A forward run retraced: steps forward, the direction flipped, steps     *)
(* back. The angle scripts' step(direction) is called on its own here, as  *)
(* next_step() / previous_step() call it, without the update() of the      *)
(* __main__ loop.                                                          *)
(***************************************************************************)
\* one call that steps the position: step(direction) of code.py and sine/code.py,
\* or step() of step_table/code.py up to its first duty write (its writes and
\* dead-time sleeps follow one at a time, Effect)
StepPosition ==
  /\ Idle
  /\ IF AngleVariant
     THEN /\ position' = StepAngle(variant, position, direction)
          /\ call' = "step"
          /\ trace' = <<Advanced>>
          /\ UNCHANGED <<phase, pending>>
     ELSE IF ~running
     THEN /\ pending' = OutputOff
          /\ call' = "tick"
          /\ trace' = <<>>
          /\ UNCHANGED <<position, phase>>
     ELSE /\ position' = StepTable(position, direction)
          /\ phase' = PhaseValuesTable(position', direction)
          /\ pending' = ApplyAll(variant, phase')
          /\ call' = "tick"
          /\ trace' = <<Advanced>>
  /\ ticks' = ticks + 1
  /\ UNCHANGED <<variant, running, direction, duty, started, idx, ret, pc, fault>>

\* a step of the forward run: next_step(), or step() of the table going forwards
GoForward ==
  /\ direction = DIRECTION_FORWARDS
  /\ ticks < MaxRun
  /\ path' = Append(path, position)
  /\ StepPosition

\* the caller turns round at the end of the forward run: direction *= -1
TurnBack ==
  /\ Idle
  /\ direction = DIRECTION_FORWARDS
  /\ ticks > 0
  /\ direction' = -1 * direction
  /\ call' = "flip"
  /\ trace' = <<>>
  /\ UNCHANGED <<variant, running, position, duty, phase, pending, ticks, started, idx, ret,
                 pc, fault, path>>

\* a step of the way back, while forward steps remain to be retraced:
\* previous_step(), or step() of the table going backwards
GoBackward ==
  /\ direction = DIRECTION_BACKWARDS
  /\ ticks < 2 * Len(path)
  /\ path' = path
  /\ StepPosition

NextReturn == GoForward \/ TurnBack \/ GoBackward \/ Effect

SpecReturn == Init /\ [][NextReturn]_vars

(***************************************************************************)
(* Properties.                                                             *)
(***************************************************************************)
PhaseIndex(ph) == IF ph = "A" THEN 1 ELSE IF ph = "B" THEN 2 ELSE 3

\* a running tick or update: the call in progress (or just finished) applies the phases
Applying == call \in {"tick", "update"} /\ running

\* the events of the current call that belong to phase ph
PhaseEvents(ph) == SelectSeq(trace, LAMBDA e : e.phase = ph)

\* the side apply_phase energizes for the value, and the side it turns off
OnSide(value) == IF FGe(value, FZero) THEN "H" ELSE "L"

OffSide(value) == IF FGe(value, FZero) THEN "L" ELSE "H"

\* C1: in every state, also between the writes of apply_phase and of output_off,
\* the high-side and the low-side duty of one phase are never both non-zero.
NoShootThrough ==
  \A ph \in Phases : ~(duty[ph]["H"] # 0 /\ duty[ph]["L"] # 0)

\* C1 witness: inside apply_phase, in the dead-time wait, right after the write
\* that switched off a side that was energized (the phase value changed sign)
InDeadTimeAfterSwitchOff ==
  /\ Applying
  /\ pending # <<>>
  /\ Head(pending).kind = "sleep"
  /\ trace # <<>>
  /\ trace[Len(trace)].kind = "write"
  /\ trace[Len(trace)].duty = 0
  /\ trace[Len(trace)].prev > 0

\* C2: within each apply_phase the events of the phase are, in this order, the
\* write of 0 to the opposite side, the dead-time sleep, and the write that
\* energizes the active side: the sleep is never first and never last.
DeadTimeOrdering ==
  Applying =>
    \A ph \in Phases :
      LET ev == PhaseEvents(ph)
          v  == phase[PhaseIndex(ph)]
      IN  /\ Len(ev) <= 3
          /\ Len(ev) >= 1 =>
               ev[1].kind = "write" /\ ev[1].side = OffSide(v) /\ ev[1].duty = 0
          /\ Len(ev) >= 2 => ev[2].kind = "sleep"
          /\ Len(ev) >= 3 => ev[3].kind = "write" /\ ev[3].side = OnSide(v)

\* C2 witness: a finished apply_phase whose value changed sign: its off-write
\* switched off an energized side and its on-write energized the other one
SignAlternatedApplyDone ==
  /\ Applying
  /\ \E ph \in Phases :
       LET ev == PhaseEvents(ph)
       IN  /\ Len(ev) = 3
           /\ ev[1].prev > 0
           /\ ev[3].duty > 0
           /\ ev[3].side # ev[1].side

\* C3: after every position mutation the cyclic position satisfies
\* 0 <= position < P, P the period of the variant (2*pi, 360 or NUM_STEPS).
PositionInRange ==
  FGe(position, FZero) /\ FLt(position, Period(variant))

\* C4: once stop() has returned, all six duties are 0, and they stay 0 through
\* further stop() calls and ticks made while stopped, until start() is called.
StoppedMeansAllOff ==
  (~running /\ ~(call = "stop" /\ pending # <<>>)) => duty = AllOff

\* C4 witness: a tick made while stopped has finished re-asserting the outputs off,
\* on a controller whose outputs had been energized by an earlier running update
StoppedTickDone ==
  /\ ~running
  /\ call = "tick"
  /\ pending = <<>>
  /\ Len(SelectSeq(trace, LAMBDA e : e.kind = "write")) = 6
  /\ phase # <<FZero, FZero, FZero>>
  /\ duty = AllOff

\* C5: a newly constructed controller is Stopped: until start() has been called
\* no tick energizes an output, so all six duties are still 0.
QuietUntilStarted ==
  ~started => duty = AllOff

\* C6: a tick issued while the controller is Stopped leaves the cyclic position
\* and the direction unchanged, in every variant.
StoppedTickKeepsPosition ==
  [][(~running /\ ticks' = ticks + 1) =>
       (position' = position /\ direction' = direction)]_vars

\* the float nearest to x + k * P
PlusPeriods(x, k, P) ==
  LET kP == [neg |-> (k < 0) # P.neg, m |-> BMul(P.m, IF k < 0 THEN -k ELSE k), e |-> P.e]
      t  == ExactSum(x, kP)
  IN  Round53(t[1], t[2], t[3])

\* C7: normalize(x) returns, for every input x (not only inputs within one period
\* of the valid range), a value in [0, P) that is congruent to x modulo P (x plus
\* a whole number of periods, as float arithmetic rounds that sum).
NormalizeIntoPeriod ==
  call = "normalize" =>
    /\ FGe(ret, FZero)
    /\ FLt(ret, Period(variant))
    /\ \E k \in (-(MaxPeriods + 1)) .. (MaxPeriods + 1) :
         ret = PlusPeriods(idx, k, Period(variant))

\* C8: in the table strategy, when the position after a step is an exact integer
\* i with 0 <= i < N, in either direction, the three phase values fed to the
\* output drivers are exactly table row i.
ExactRowAtIntegralPosition ==
  (variant = "table" /\ Applying /\ FIsInt(position)
     /\ FTrunc(position) \in 0 .. (NUM_STEPS - 1)) =>
    phase = << FOfInt(STEPS[FTrunc(position) + 1][1]),
               FOfInt(STEPS[FTrunc(position) + 1][2]),
               FOfInt(STEPS[FTrunc(position) + 1][3]) >>

\* C8 witness: a backward table step has landed on an exact integer position
\* and its three phases have been applied
IntegralPositionBackward ==
  /\ variant = "table"
  /\ Applying
  /\ pending = <<>>
  /\ direction = DIRECTION_BACKWARDS
  /\ FIsInt(position)
  /\ FTrunc(position) \in 0 .. (NUM_STEPS - 1)
  /\ duty # AllOff

\* position of an event in the order: advance, then phase A, B, C
Rank(e) == IF e.kind = "advance" THEN 0 ELSE PhaseIndex(e.phase)

\* C9: within one running tick the writes (and dead-time sleeps) happen in the
\* order A, then B, then C, and all of them after the position was advanced.
PhaseOrderABC ==
  Applying =>
    /\ \A i, j \in DOMAIN trace : i < j => Rank(trace[i]) <= Rank(trace[j])
    /\ (call = "tick" /\ trace # <<>>) => trace[1].kind = "advance"

\* C9 witness: a running tick has finished: the advance and the nine events of
\* the three apply_phase calls have all been observed
RunningTickDone ==
  /\ Applying
  /\ call = "tick"
  /\ pending = <<>>
  /\ Len(trace) = 10
  /\ \A ph \in Phases : Len(PhaseEvents(ph)) = 3

\* Python round() of a float x >= 0: to the nearest integer, ties to even
RoundHalfEven(x) ==
  LET t == FTrunc(x)
      c == FCmp(FSub(x, FOfInt(t)), FDivInt(FOfInt(1), 2))
  IN  IF c > 0 \/ (c = 0 /\ t % 2 = 1) THEN t + 1 ELSE t

\* the value apply_phase scales by PWM_MAX: value itself, or value / 100 for the table
Normalized(value) == IF variant = "table" THEN FDivInt(value, 100) ELSE value

\* |value| * PWM_MAX as a float
Scaled(value) ==
  FMulInt(IF FGe(value, FZero) THEN Normalized(value) ELSE FNeg(Normalized(value)), PWM_MAX)

\* C10 as claimed: after apply(value) the side opposite to the sign of value is 0
\* and the active side's duty equals round(|value| * MAX).
DutyIsRounded ==
  (Applying /\ pending = <<>>) =>
    \A ph \in Phases :
      LET v == phase[PhaseIndex(ph)]
      IN  /\ duty[ph][OffSide(v)] = 0
          /\ duty[ph][OnSide(v)] = RoundHalfEven(Scaled(v))

\* C10 amended: after apply(value) the side opposite to the sign of value is 0 and
\* the active side's duty d is |value| * MAX truncated: d <= |value| * MAX < d + 1.
DutyIsTruncated ==
  (Applying /\ pending = <<>>) =>
    \A ph \in Phases :
      LET v == phase[PhaseIndex(ph)]
          d == duty[ph][OnSide(v)]
      IN  /\ duty[ph][OffSide(v)] = 0
          /\ FLe(FOfInt(d), Scaled(v))
          /\ FLt(Scaled(v), FOfInt(d + 1))

\* C10 witness: an update has finished with a negative phase value whose scaled
\* magnitude has a fraction above one half: truncation and rounding differ
TruncationVisible ==
  /\ Applying
  /\ pending = <<>>
  /\ \E ph \in Phases :
       LET v == phase[PhaseIndex(ph)]
       IN  /\ FLt(v, FZero)
           /\ duty[ph]["L"] > 0
           /\ RoundHalfEven(Scaled(v)) = duty[ph]["L"] + 1

\* C11: when a duty write of a tick raises, that is the last thing the call does:
\* no write is left to do (neither a retry, nor the on-write of the same phase,
\* nor a write of a later phase), and control is with the caller's handler.
FaultEndsTick ==
  \A i \in DOMAIN trace :
    trace[i].kind = "fault" =>
      /\ i = Len(trace)
      /\ pending = <<>>
      /\ pc \in {"except", "crashed"}

\* C11 witness: the off-write of phase A raised in a running tick, right after the
\* step, with the on-write of A and all of B and C not done
TickFaultedAtFirstWrite ==
  /\ pc = "except"
  /\ call = "tick"
  /\ running
  /\ Len(trace) = 2
  /\ trace[1].kind = "advance"
  /\ trace[2].kind = "fault"
  /\ trace[2].phase = "A"
  /\ trace[2].duty = 0

\* the angle in radians at which update() evaluates the cosines
Theta == IF variant = "deg" THEN FMul(position, DEGREE_TO_RADIAN_MULTIPLIER) ELSE position

\* -1 <= v <= 1
InUnitRange(v) == FLe(FOfInt(-1), v) /\ FLe(v, FOfInt(1))

\* |x - y| <= 2^(-k)
Within(x, y, k) ==
  LET d == FSub(x, y)
  IN  FLe(IF d.neg THEN FNeg(d) ELSE d, [neg |-> FALSE, m |-> <<1>>, e |-> -k])

\* the three cosines of the current angle, each within [-1, 1]
BalancedCosines ==
  /\ phase = << Cos(Theta), Cos(FSub(Theta, PHASE_ANGLE)), Cos(FAdd(Theta, PHASE_ANGLE)) >>
  /\ \A i \in 1 .. 3 : InUnitRange(phase[i])

\* C12 as claimed: in the trigonometric variants the three phase values passed to the
\* output drivers are cos(theta), cos(theta - 2*pi/3), cos(theta + 2*pi/3) of the
\* current angle, each within [-1, 1], and at theta = 0 they are (1.0, -0.5, -0.5).
CosinesExactAtZero ==
  (AngleVariant /\ Applying) =>
    /\ BalancedCosines
    /\ position = FZero =>
         phase = << FOfInt(1), FDivInt(FOfInt(-1), 2), FDivInt(FOfInt(-1), 2) >>

\* C12 amended: the same three cosines of the current angle, each within [-1, 1];
\* at theta = 0 the value of A is 1.0 and those of B and C are -0.5 to within
\* floating-point tolerance (2^-52), not -0.5 itself.
CosinesAtCurrentAngle ==
  (AngleVariant /\ Applying) =>
    /\ BalancedCosines
    /\ position = FZero =>
         /\ phase[1] = FOfInt(1)
         /\ Within(phase[2], FDivInt(FOfInt(-1), 2), 52)
         /\ Within(phase[3], FDivInt(FOfInt(-1), 2), 52)

\* C12 witness: the update made at angle 0 has driven A fully on the high side
\* and B and C on the low side
UpdatedAtZero ==
  /\ AngleVariant
  /\ Applying
  /\ pending = <<>>
  /\ position = FZero
  /\ duty["A"]["H"] = PWM_MAX
  /\ duty["B"]["L"] > 0
  /\ duty["C"]["L"] > 0

\* from + progress * (to - from) of table column col, with the direction-aware
\* bracket of p and both indices taken modulo NUM_STEPS
Bracketed(p, dir, col) ==
  LET lo       == FFloor(p)
      hi       == FCeil(p)
      forward  == dir = DIRECTION_FORWARDS
      from     == IF forward THEN lo ELSE hi
      to       == IF forward THEN hi ELSE lo
      progress == IF forward
                  THEN FSub(FOfInt(1), FSub(FOfInt(to), p))
                  ELSE FSub(FOfInt(1), FSub(p, FOfInt(to)))
      fv       == STEPS[(from % NUM_STEPS) + 1][col]
      tv       == STEPS[(to % NUM_STEPS) + 1][col]
  IN  FAdd(FOfInt(fv), FMulInt(progress, tv - fv))

\* C13: in the table strategy, at a non-integral position p, forward the bracket is
\* from = floor(p), to = ceil(p) with progress = 1 - (to - p), backward it is
\* from = ceil(p), to = floor(p) with progress = 1 - (p - to), both indices wrapped
\* modulo N, and each phase value is from + progress * (to - from) of its column;
\* forward at p = 0.1 the values are (27.5, 0, -72.5).
InterpolationBetweenRows ==
  (call = "values" /\ ~FIsInt(position)) =>
    /\ \A col \in 1 .. 3 : phase[col] = Bracketed(position, direction, col)
    /\ (position = FDivInt(FOfInt(1), 10) /\ direction = DIRECTION_FORWARDS) =>
         phase = << FDivInt(FOfInt(55), 2), FZero, FDivInt(FOfInt(-145), 2) >>

\* C13 witness: the values of position 0.1, forward, have been computed and lie
\* strictly between the rows (25, 0, -75) and (50, 0, -50)
InterpolatedAtOneTenth ==
  /\ call = "values"
  /\ position = FDivInt(FOfInt(1), 10)
  /\ direction = DIRECTION_FORWARDS
  /\ FLt(FOfInt(25), phase[1]) /\ FLt(phase[1], FOfInt(50))
  /\ FLt(FOfInt(-75), phase[3]) /\ FLt(phase[3], FOfInt(-50))

\* on the way back: the position the forward run held at the point now retraced to
Retraced == path[2 * Len(path) - ticks + 1]

\* x and y are within 2^(-k) of each other, or of each other plus or minus P
CongruentWithin(x, y, P, k) ==
  \/ Within(x, y, k)
  \/ Within(x, FAdd(y, P), k)
  \/ Within(FAdd(x, P), y, k)

\* C14 as claimed: after n forward ticks and a direction flip each backward tick
\* undoes exactly one forward tick, so the position is again the one the forward
\* run held there, and after n backward ticks the one the run started from.
BackwardUndoesForward ==
  (direction = DIRECTION_BACKWARDS /\ call # "flip") => position = Retraced

\* C14 amended: each backward tick undoes one forward tick up to floating-point
\* rounding and modulo the period P: the position is within 2^-40 of the one the
\* forward run held there, or of that position plus or minus P.
BackwardRetracesForward ==
  (direction = DIRECTION_BACKWARDS /\ call # "flip") =>
    CongruentWithin(position, Retraced, Period(variant), 40)

\* C14 witness: a forward run that wrapped around has been retraced all the way
\* back to where it started
RetracedAcrossWrap ==
  /\ direction = DIRECTION_BACKWARDS
  /\ call # "flip"
  /\ ticks = 2 * Len(path)
  /\ \E i \in 1 .. (Len(path) - 1) : FLt(path[i + 1], path[i])

\* C15: on every exit of the run loop by a fault stop() is invoked: once the
\* program is past the except clause stop() has been called and the controller is
\* Stopped, and when stop() returned (its writes succeeded) all six duties are 0,
\* whichever phase was being updated when the fault occurred.
StopOnEveryExit ==
  /\ pc \in {"finally", "exited", "crashed"} => (call = "stop" /\ ~running)
  /\ pc = "exited" => duty = AllOff

\* C15 witness: the program has ended after a tick raised at the on-write of
\* phase B, when phase A had already been energized by that tick or an earlier call
ExitedAfterFaultInPhaseB ==
  /\ pc = "exited"
  /\ fault.kind = "fault"
  /\ fault.phase = "B"
  /\ fault.duty > 0
  /\ ticks > 0
  /\ duty = AllOff

\* i is a valid table index and is j wrapped modulo NUM_STEPS
WrappedIndex(i, j) == i \in 0 .. (NUM_STEPS - 1) /\ (j - i) % NUM_STEPS = 0

\* C16: in the table strategy, after any sequence of ticks and direction flips,
\* the two indices a tick looks up (from_idx and to_idx after wrapping) are
\* integers in 0 .. NUM_STEPS-1, the unwrapped indices taken modulo NUM_STEPS;
\* in particular ceil(position) = NUM_STEPS wraps to 0.
TableIndicesInRange ==
  (variant = "table" /\ call = "tick" /\ running) =>
    /\ WrappedIndex(NormalizeIdx(FromIdx(position, direction)), FromIdx(position, direction))
    /\ WrappedIndex(NormalizeIdx(ToIdx(position, direction)), ToIdx(position, direction))
    /\ FCeil(position) = NUM_STEPS => NormalizeIdx(FCeil(position)) = 0

\* C16 witness: a tick has been made at a position in the last table interval,
\* where ceil(position) = NUM_STEPS, and its phases applied from rows 23 and 0
CeilingWrapsToZero ==
  /\ variant = "table"
  /\ call = "tick"
  /\ running
  /\ FCeil(position) = NUM_STEPS
  /\ FFloor(position) = NUM_STEPS - 1
  /\ duty # AllOff

\* the phase values step() computes at the same position for the opposite direction
OppositeValues == PhaseValuesTable(position, -1 * direction)

\* C17 as claimed: in the table strategy the phase triple of a position p in
\* [0, N) does not depend on the travel direction: the forward and the backward
\* bracket / progress interpolate to the same three values.
DirectionIndependentValues ==
  call = "values" => phase = OppositeValues

\* C17 amended: the forward and the backward bracket / progress interpolate to the
\* same three values up to floating-point rounding: each pair is within 2^-44.
DirectionIndependentWithinRounding ==
  call = "values" => \A col \in 1 .. 3 : Within(phase[col], OppositeValues[col], 44)

\* C17 witness: the values of a non-integral position have been computed going
\* backward, and going forward from the same position gives different bits
DirectionsDifferInLastBits ==
  /\ call = "values"
  /\ direction = DIRECTION_BACKWARDS
  /\ ~FIsInt(position)
  /\ phase # OppositeValues
  /\ \A col \in 1 .. 3 : Within(phase[col], OppositeValues[col], 44)

\* the range of a phase value: [-100, 100] for the table, [-1, 1] otherwise
InPhaseRange(v) ==
  IF variant = "table"
  THEN FLe(FOfInt(-100), v) /\ FLe(v, FOfInt(100))
  ELSE InUnitRange(v)

\* C18: every duty value written to any of the six PWM outputs is an integer in
\* 0 .. PWM_MAX: the phase values stay within [-100, 100] (table) or [-1, 1]
\* (cosines), and the sign branch of apply_phase never yields a negative or
\* over-range duty, in the outputs as they are and in the writes still to come.
DutyInRange ==
  /\ \A ph \in Phases : \A sd \in Sides : duty[ph][sd] \in 0 .. PWM_MAX
  /\ \A i \in DOMAIN pending :
       pending[i].kind = "write" => pending[i].duty \in 0 .. PWM_MAX
  /\ \A i \in 1 .. 3 : InPhaseRange(phase[i])

\* C18 witness: a table tick has finished that took the negative branch of
\* apply_phase for one phase and the positive branch for another
BothSignBranchesWritten ==
  /\ variant = "table"
  /\ Applying
  /\ pending = <<>>
  /\ \E ph \in Phases : FLt(phase[PhaseIndex(ph)], FZero) /\ duty[ph]["L"] > 0
  /\ \E ph \in Phases : FLt(FZero, phase[PhaseIndex(ph)]) /\ duty[ph]["H"] > 0

\* C19: start() and stop() change only the running flag and, for stop(), the six
\* duties: no step of either, the duty writes of stop() included, changes the
\* position or the direction, and start() writes no duty; so a start() after a
\* stop() resumes from the position held when stop() was called.
StartStopKeepPosition ==
  [][(call' \in {"start", "stop"}) =>
       /\ position' = position
       /\ direction' = direction
       /\ (call' = "start" => duty' = duty)
       /\ (call' = "stop" => running' = FALSE)]_vars

\* C19 witness: start() has been called on a controller that was stopped after
\* it had moved and energized its outputs: it is Running again, away from the
\* constructed position, with the outputs still off
RestartedAwayFromHome ==
  /\ call = "start"
  /\ running
  /\ ticks > 0
  /\ position # InitialPosition(variant)
  /\ phase # <<FZero, FZero, FZero>>
  /\ duty = AllOff

====
